---- MODULE Spec2Model ----
(***************************************************************************)
(* Model of organize_media.py: the rescue pipeline (process_files and the  *)
(* functions it calls), the CSV cache store and the Grouping Engine.       *)
(*                                                                         *)
(* Representation.  A Python str is a sequence of one-character strings.   *)
(* An optional value (a JSON field that may be null) is a sequence of      *)
(* length 0 (None) or 1 (the value).  A directory is a sequence of path    *)
(* segments, a file path is the directory followed by the file name, and the *)
(* file system is the set of [path, id] of the files that exist, id being  *)
(* the identity of the file's content.                                     *)
(***************************************************************************)
EXTENDS Integers, Sequences, FiniteSets, TLC

\* ------------------------------------------------------------------ bounds
\* Work one behaviour may hold: a run costs one unit per file it scanned
\* (at least one), and it starts only if the units left cover it.
MaxWork == 4

\* ------------------------------------------------------- optional values
None == <<>>
Some(v) == <<v>>
IsNone(o) == Len(o) = 0
Val(o) == o[1]

\* ----------------------------------------------------------- string atoms
sAnime == <<"A","n","i","m","e">>
sMovies == <<"M","o","v","i","e","s">>
sKidsMovies == <<"K","i","d","s"," ","M","o","v","i","e","s">>
sTVShows == <<"T","V"," ","S","h","o","w","s">>
sKidsTV == <<"K","i","d","s"," ","T","V">>
sExtras == <<"E","x","t","r","a","s">>
sSeasonPrefix == <<"S","e","a","s","o","n"," ">>
sDash == <<" ","-"," ">>
sHiddenMarker == <<".","_">>

Digits == <<"0","1","2","3","4","5","6","7","8","9">>
UpperChars == <<"A","B","C","D","E","F","G","H","I","J","K","L","M",
                "N","O","P","Q","R","S","T","U","V","W","X","Y","Z">>
LowerChars == <<"a","b","c","d","e","f","g","h","i","j","k","l","m",
                "n","o","p","q","r","s","t","u","v","w","x","y","z">>

\* str.lower(), one character
LowerChar(c) ==
  IF \E i \in 1..Len(UpperChars) : UpperChars[i] = c
  THEN LowerChars[CHOOSE i \in 1..Len(UpperChars) : UpperChars[i] = c]
  ELSE c

Lower(s) == [i \in 1..Len(s) |-> LowerChar(s[i])]

StartsWith(s, p) == Len(s) >= Len(p) /\ SubSeq(s, 1, Len(p)) = p
EndsWith(s, p) == Len(s) >= Len(p) /\ SubSeq(s, Len(s) - Len(p) + 1, Len(s)) = p

\* str.isdigit(): non-empty and every character a decimal digit
IsDigitChar(c) == \E i \in 1..Len(Digits) : Digits[i] = c
IsDigit(s) == Len(s) > 0 /\ \A i \in 1..Len(s) : IsDigitChar(s[i])

DigitVal(c) == (CHOOSE i \in 1..Len(Digits) : Digits[i] = c) - 1

\* int(s) for a string of decimal digits
RECURSIVE ParseInt(_)
ParseInt(s) ==
  IF Len(s) = 0 THEN 0
  ELSE 10 * ParseInt(SubSeq(s, 1, Len(s) - 1)) + DigitVal(s[Len(s)])

\* str(n) for n >= 0
RECURSIVE IntToStr(_)
IntToStr(n) ==
  IF n < 10 THEN <<Digits[n + 1]>>
  ELSE IntToStr(n \div 10) \o <<Digits[(n % 10) + 1]>>

\* format(n, "02d")
Format02d(n) == IF n < 10 THEN <<"0">> \o IntToStr(n) ELSE IntToStr(n)

\* s[:n]
Take(s, n) == SubSeq(s, 1, IF Len(s) < n THEN Len(s) ELSE n)

\* ------------------------------------------------------------- constants
ORPHANED_PATH == << <<"/Volumes/HDD_RAID/Orphaned">> >>
SHARED_MEDIA_PATH == << <<"/Volumes/HDD_RAID/Shared Media">> >>
CATEGORIES == <<sAnime>>
VIDEO_EXTENSIONS == { <<".","m","p","4">>, <<".","m","k","v">>, <<".","a","v","i">>,
                      <<".","m","o","v">>, <<".","w","m","v">> }
EpisodicCategories == {sTVShows, sKidsTV, sAnime}
MovieCategories == {sMovies, sKidsMovies}
ForbiddenChars == {"<", ">", ":", "\"", "/", "\\", "|", "?", "*"}
expected_headers == <<"original_path", "new_path", "category", "title",
                      "show_name", "year", "season", "episode">>

\* ------------------------------------------------------------ pathlib
\* index of the last "." of a name, 0 when there is none
LastDot(name) ==
  IF \E i \in 1..Len(name) : name[i] = "."
  THEN CHOOSE i \in 1..Len(name) :
         name[i] = "." /\ \A j \in (i+1)..Len(name) : name[j] # "."
  ELSE 0

\* Path(p).suffix: from the last dot, unless the dot is first or last
Suffix(name) ==
  LET i == LastDot(name)
  IN IF i > 1 /\ i < Len(name) THEN SubSeq(name, i, Len(name)) ELSE <<>>

\* Path(p).stem
Stem(name) ==
  LET i == LastDot(name)
  IN IF i > 1 /\ i < Len(name) THEN SubSeq(name, 1, i - 1) ELSE name

\* Path / segment, for a segment without separators
PathJoin(p, seg) == IF seg = <<>> \/ seg = <<".">> THEN p ELSE Append(p, seg)

\* the directories mkdir(parents=True) makes sure exist
Prefixes(p) == { SubSeq(p, 1, n) : n \in 1..Len(p) }

\* ----------------------------------------------------------- pure code
\* re.sub(r'[<>:"/\\|?*]', '', filename); "" when not a str
RECURSIVE StripForbidden(_)
StripForbidden(s) ==
  IF Len(s) = 0 THEN <<>>
  ELSE IF s[1] \in ForbiddenChars THEN StripForbidden(Tail(s))
  ELSE <<s[1]>> \o StripForbidden(Tail(s))

\* a sanitizer that returns the string as it is
sanitize_filename_mut(filename) ==
  IF IsNone(filename) THEN <<>> ELSE Val(filename)

sanitize_filename(filename) ==
  IF IsNone(filename) THEN <<>> ELSE StripForbidden(Val(filename))

RECURSIVE dedupe_from(_, _)
dedupe_from(deduped_list, rest) ==
  IF Len(rest) = 0 THEN deduped_list
  ELSE IF rest[1] # deduped_list[Len(deduped_list)]
       THEN dedupe_from(Append(deduped_list, rest[1]), Tail(rest))
       ELSE dedupe_from(deduped_list, Tail(rest))

\* a dedupe that drops every repeat, adjacent or not
dedupe_sequential_mut(lst) ==
  IF Len(lst) = 0 THEN <<>>
  ELSE LET first(i) == \A j \in 1..(i-1) : lst[j] # lst[i]
           keep == { i \in 1..Len(lst) : first(i) }
           nth(k) == CHOOSE i \in keep : Cardinality({ j \in keep : j <= i }) = k
       IN [k \in 1..Cardinality(keep) |-> lst[nth(k)]]

dedupe_sequential(lst) ==
  IF Len(lst) = 0 THEN <<>> ELSE dedupe_from(<<lst[1]>>, Tail(lst))

is_video_file(filename) == \E ext \in VIDEO_EXTENSIONS : EndsWith(Lower(filename), ext)

\* truthiness of an optional str
Truthy(o) == ~IsNone(o) /\ Len(Val(o)) > 0

\* season is not None and str(season).isdigit()
IsNumber(o) == ~IsNone(o) /\ IsDigit(Val(o))

RECURSIVE JoinSubfolders(_, _)
JoinSubfolders(p, subs) ==
  IF Len(subs) = 0 THEN p
  ELSE JoinSubfolders(PathJoin(p, sanitize_filename(Some(subs[1]))), Tail(subs))

\* a build_destination_path that appends the title whether or not subfolders
\* were supplied
build_destination_path_mut(category, subfolders, title, season) ==
  LET base == PathJoin(SHARED_MEDIA_PATH, sanitize_filename(category))
      withSubs == JoinSubfolders(base, dedupe_sequential(subfolders))
      episodic == Val(category) \in EpisodicCategories /\ Truthy(title)
      withTitle == IF episodic
                   THEN PathJoin(withSubs, sanitize_filename(title))
                   ELSE withSubs
  IN IF episodic /\ IsNumber(season)
     THEN PathJoin(withTitle, sSeasonPrefix \o Format02d(ParseInt(Val(season))))
     ELSE withTitle

\* the directory build_destination_path returns, for a category that is not
\* None; subfolders is the list handed in ([] for a null list)
build_destination_path(category, subfolders, title, season) ==
  LET base == PathJoin(SHARED_MEDIA_PATH, sanitize_filename(category))
      withSubs == JoinSubfolders(base, dedupe_sequential(subfolders))
      episodic == Val(category) \in EpisodicCategories /\ Truthy(title)
      withTitle == IF episodic /\ Len(subfolders) = 0
                   THEN PathJoin(withSubs, sanitize_filename(title))
                   ELSE withSubs
  IN IF episodic /\ IsNumber(season)
     THEN PathJoin(withTitle, sSeasonPrefix \o Format02d(ParseInt(Val(season))))
     ELSE withTitle

\* str(x) inside an f-string: None prints as "None"
FStr(o) == IF IsNone(o) THEN <<"N","o","n","e">> ELSE Val(o)

\* a generate_new_filename that names an episode by its title alone
generate_new_filename_mut(name, category, title, year, season, episode) ==
  IF ~IsNone(category) /\ Val(category) \in MovieCategories
  THEN IF Truthy(year)
       THEN FStr(year) \o sDash \o sanitize_filename(title) \o Suffix(name)
       ELSE sanitize_filename(title) \o Suffix(name)
  ELSE IF ~IsNone(category) /\ Val(category) \in EpisodicCategories
  THEN sanitize_filename(title) \o Suffix(name)
  ELSE name

generate_new_filename(name, category, title, year, season, episode) ==
  LET file_ext == Suffix(name)
      season_str == IF IsNumber(season)
                    THEN <<"S">> \o Format02d(ParseInt(Val(season))) ELSE <<>>
      episode_str == IF IsNumber(episode)
                     THEN <<"E">> \o Format02d(ParseInt(Val(episode))) ELSE <<>>
  IN IF ~IsNone(category) /\ Val(category) \in MovieCategories
     THEN IF Truthy(year)
          THEN FStr(year) \o sDash \o sanitize_filename(title) \o file_ext
          ELSE sanitize_filename(title) \o file_ext
     ELSE IF ~IsNone(category) /\ Val(category) \in EpisodicCategories
     THEN IF season_str # <<>> /\ episode_str # <<>>
          THEN season_str \o episode_str \o sDash \o sanitize_filename(title) \o file_ext
          ELSE IF episode_str # <<>>
          THEN episode_str \o sDash \o sanitize_filename(title) \o file_ext
          ELSE sanitize_filename(title) \o file_ext
     ELSE name


\* ------------------------------------------------------- paths and files
\* A path is the sequence of its segments; the last one is the file name.
Name(p) == p[Len(p)]
Parent(p) == SubSeq(p, 1, Len(p) - 1)
IsUnder(p, root) == Len(p) > Len(root) /\ SubSeq(p, 1, Len(root)) = root

\* paths of the files present in a file system (a set of [path, id])
PathsOf(files) == { e.path : e \in files }
IdAt(files, p) == (CHOOSE e \in files : e.path = p).id

IsPrefix(d1, d2) == Len(d1) <= Len(d2) /\ SubSeq(d2, 1, Len(d1)) = d1

\* the orders os.walk (top-down) may list a set of files in: the files of a
\* directory come before those of the directories below it, the order
\* inside one directory is the listing order, which is arbitrary
Orderings(S) ==
  { s \in [1..Cardinality(S) -> S] :
      /\ \A i, j \in 1..Cardinality(S) : s[i] = s[j] => i = j
      /\ \A i, j \in 1..Cardinality(S) :
           (Parent(s[i]) # Parent(s[j]) /\ IsPrefix(Parent(s[i]), Parent(s[j]))) => i < j }

\* get_files_in_directory: the walk below directory, without "._" names,
\* video files only
VideoFilesUnder(files, directory) ==
  { p \in PathsOf(files) :
      /\ IsUnder(p, directory)
      /\ ~StartsWith(Name(p), sHiddenMarker)
      /\ is_video_file(Name(p)) }

get_files_in_directory(files, directory) == Orderings(VideoFilesUnder(files, directory))

\* shutil.move(src, dst): a destination that is an existing directory
\* receives the source inside it
RealDst(dirset, src, dst) == IF dst \in dirset THEN Append(dst, Name(src)) ELSE dst

\* the move cannot succeed: source gone, target directory missing, or the
\* name inside an existing directory is taken
MoveImpossible(files, dirset, src, dst) ==
  \/ src \notin PathsOf(files)
  \/ Parent(RealDst(dirset, src, dst)) \notin dirset
  \/ (dst \in dirset /\ RealDst(dirset, src, dst) \in PathsOf(files) \cup dirset)

\* os.rename: the file leaves src and replaces whatever was at the target
MoveResult(files, dirset, src, dst) ==
  LET real == RealDst(dirset, src, dst)
      moved == [path |-> real, id |-> IdAt(files, src)]
  IN { e \in files : e.path # src /\ e.path # real } \cup {moved}

\* ------------------------------------------------------------- metadata
\* A metadata dict: has is the set of keys present, the other fields are
\* the values (meaningless for a key that is not present).
NoPath == <<>>
CsvKeys == { expected_headers[i] : i \in 1..Len(expected_headers) }

Meta(has, category, subfolders, title, show_name, year, season, episode) ==
  [has |-> has, original_path |-> NoPath, new_path |-> NoPath,
   category |-> category, subfolders |-> subfolders, title |-> title,
   show_name |-> show_name, year |-> year, season |-> season, episode |-> episode]

ClassifyKeys == {"category", "subfolders", "title", "show_name", "year", "season", "episode"}

\* metadata.get(key, default) for a str-valued key
Get(m, key, val, default) == IF key \in m.has THEN val ELSE default

\* metadata.get('subfolders', []) as the list build_destination_path iterates
\* (a null list is falsy and gives no segment)
SubfolderList(m) ==
  IF "subfolders" \in m.has /\ ~IsNone(m.subfolders) THEN Val(m.subfolders) ELSE <<>>

\* csv.DictWriter writes None as the empty field and a str as itself;
\* csv.DictReader returns every field as a str
CsvWrite(o) == IF IsNone(o) THEN <<>> ELSE Val(o)
CsvRead(s) == Some(s)

\* one line of the cache file, as written by write_cache_entry
CsvRow(entry) ==
  [original_path |-> entry.original_path, new_path |-> entry.new_path,
   category |-> CsvWrite(entry.category), title |-> CsvWrite(entry.title),
   show_name |-> CsvWrite(entry.show_name), year |-> CsvWrite(entry.year),
   season |-> CsvWrite(entry.season), episode |-> CsvWrite(entry.episode)]

\* the dict csv.DictReader yields for a line
RowDict(row) ==
  [has |-> CsvKeys, original_path |-> row.original_path, new_path |-> row.new_path,
   category |-> CsvRead(row.category), subfolders |-> None, title |-> CsvRead(row.title),
   show_name |-> CsvRead(row.show_name), year |-> CsvRead(row.year),
   season |-> CsvRead(row.season), episode |-> CsvRead(row.episode)]

\* cache[row['original_path']] = row, for the rows in file order
RECURSIVE LoadRows(_, _)
LoadRows(cache0, rows) ==
  IF Len(rows) = 0 THEN cache0
  ELSE LET d == RowDict(rows[1])
           k == d.original_path
       IN LoadRows([x \in DOMAIN cache0 \cup {k} |-> IF x = k THEN d ELSE cache0[x]],
                   Tail(rows))

EmptyCache == [x \in {} |-> RowDict([original_path |-> NoPath, new_path |-> NoPath,
                 category |-> <<>>, title |-> <<>>, show_name |-> <<>>, year |-> <<>>,
                 season |-> <<>>, episode |-> <<>>])]

HeaderMismatch(file) == file.exists /\ file.header # expected_headers

\* a read_cache that opens the file and never fills the dict
read_cache_mut(file) == EmptyCache

\* read_cache: the ValueError of a header mismatch is raised inside the try
\* and caught by its except, which logs; the function returns the empty dict
read_cache(file) ==
  IF ~file.exists THEN EmptyCache
  ELSE IF file.header # expected_headers THEN EmptyCache
  ELSE LoadRows(EmptyCache, file.rows)

\* a write_cache_entry that opens the file with 'w' every time
write_cache_entry_mut(file, entry) ==
  [exists |-> TRUE, header |-> expected_headers, rows |-> <<CsvRow(entry)>>]

\* write_cache_entry: header first when the file does not exist, then append
write_cache_entry(file, entry) ==
  LET base == IF file.exists THEN file
              ELSE [exists |-> TRUE, header |-> expected_headers, rows |-> <<>>]
  IN [base EXCEPT !.rows = Append(@, CsvRow(entry))]

\* the dict process_files stores and writes for a file
cache_entry(m, original_path, new_path) ==
  [has |-> CsvKeys, original_path |-> original_path, new_path |-> new_path,
   category |-> Get(m, "category", m.category, Some(<<>>)),
   subfolders |-> None,
   title |-> Get(m, "title", m.title, Some(<<>>)),
   show_name |-> Get(m, "show_name", m.show_name, Some(<<>>)),
   year |-> Get(m, "year", m.year, Some(<<>>)),
   season |-> Get(m, "season", m.season, Some(<<>>)),
   episode |-> Get(m, "episode", m.episode, Some(<<>>))]

\* a purge that drops the scanned keys and keeps the others
purge_removed_files_from_cache_mut(c, files) ==
  LET media_files_set == { files[i] : i \in 1..Len(files) }
  IN [k \in DOMAIN c \ media_files_set |-> c[k]]

purge_removed_files_from_cache(c, files) ==
  LET media_files_set == { files[i] : i \in 1..Len(files) }
      removed_files == DOMAIN c \ media_files_set
  IN [k \in DOMAIN c \ removed_files |-> c[k]]

\* update_metadata_with_tmdb(metadata, tmdb_data, is_tv=False)
update_metadata_with_tmdb(m, tmdb_data) ==
  [m EXCEPT !.has = @ \cup {"year", "title"},
            !.year = Some(Take(IF "release_date" \in tmdb_data.has
                               THEN tmdb_data.release_date ELSE <<>>, 4)),
            !.title = IF "title" \in tmdb_data.has THEN Some(tmdb_data.title) ELSE m.title]


\* --------------------------------------------------- the modelled inputs
\* names on disk
nA_mkv == <<"a",".","m","k","v">>
nA_srt == <<"a",".","s","r","t">>
nHidden == <<".","_","c",".","m","k","v">>
nX_mkv == <<"x",".","M","K","V">>
sSub == <<"d">>

InitialFiles ==
  { [path |-> Append(ORPHANED_PATH, nA_mkv), id |-> 1],
    [path |-> Append(ORPHANED_PATH, nA_srt), id |-> 2],
    [path |-> Append(Append(ORPHANED_PATH, sSub), nA_mkv), id |-> 3],
    [path |-> Append(ORPHANED_PATH, nHidden), id |-> 4],
    [path |-> Append(Append(SHARED_MEDIA_PATH, sAnime), nX_mkv), id |-> 5] }

InitialDirs == { ORPHANED_PATH, Append(ORPHANED_PATH, sSub), SHARED_MEDIA_PATH,
                 Append(SHARED_MEDIA_PATH, sAnime) }

\* the cache file before the first run: none, or one left by another tool
AbsentFile == [exists |-> FALSE, header |-> <<>>, rows |-> <<>>]
ForeignFile == [exists |-> TRUE, header |-> <<"path", "dest">>, rows |-> <<>>]

\* what the classification service may answer for a file name (besides
\* failing)
ClassifyAnswers ==
  { \* an episodic record with repeated subfolders and a title to sanitize
    Meta(ClassifyKeys, Some(sAnime), Some(<<sExtras, sExtras>>), Some(<<"T", ":">>),
         None, None, Some(<<"1">>), Some(<<"2">>)),
    \* a movie, unknown fields null
    Meta(ClassifyKeys, Some(sMovies), None, Some(<<"M">>), None, None, None, None),
    \* a TV show without subfolders
    Meta(ClassifyKeys, Some(sTVShows), Some(<<>>), Some(<<"S">>), Some(<<"S">>),
         None, Some(<<"0", "1">>), None),
    \* category unknown
    Meta(ClassifyKeys, None, None, Some(<<"M">>), None, None, None, None),
    \* "empty data": the JSON object {}
    Meta({}, None, None, None, None, None, None, None) }

\* what the TMDb search may return as results[0]
TmdbAnswers ==
  { [has |-> {"title", "release_date"}, title |-> <<"N">>,
     release_date |-> <<"2","0","2","0","-","0","1","-","0","1">>] }

\* ------------------------------------------------------------------ state
\* the names categorize_file can be asked about
VideoNames == { Name(p) : p \in VideoFilesUnder(InitialFiles, ORPHANED_PATH) }

VARIABLES
  oracle,        \* file name -> what the classification service answers for
                 \* it when the call succeeds: the prompt holds the file name
                 \* only and is sent with temperature 0.0, so the answer is
                 \* taken to be the same every time the name is asked about
  writable,      \* whether media_cache.csv can be opened for writing (its
                 \* directory and permissions do not change while the model runs)
  fs,            \* the files on disk: set of [path, id]
  dirs,          \* the directories on disk
  cacheFile,     \* media_cache.csv: [exists, header, rows]
  pc,            \* position of the script
  work,          \* units of work started so far
  mode,          \* "rescue" or "reorganize": the mode the operator runs the
                 \* script in (a behaviour stays in one mode)
  dry_run,       \* --dry-run
  no_cache,      \* --no-cache
  media_files,   \* the list get_files_in_directory returned
  idx,           \* position of the for loop in media_files / groupings
  cache,         \* the in-memory cache dict
  metadata,      \* metadata of the file in process
  dest_file,     \* dest_file of the file in process
  pending,       \* entries move_file_and_sidecars has still to visit
  groupings,     \* the groupings of the reorganization
  group_moves,   \* the files still to move for the current grouping
  \* ---- observations of the current run (not program state)
  fs0,           \* fs when the run started
  dirs0,         \* dirs when the run started
  loaded,        \* the cache as process_files received it
  headerError,   \* read_cache met a header mismatch
  classified,    \* files categorize_file was called for
  enriched,      \* files fetch_metadata_tmdb was called for
  handed,        \* file in process -> metadata handed to rename_and_move_file
  hits,          \* file in process -> cached record found at lookup
  moved,         \* ids of the files a shutil.move relocated
  moveFailed,    \* files for which a shutil.move raised
  failedIds,     \* ids of the entries whose shutil.move raised
  fsAtMove,      \* fs when move_file_and_sidecars listed the source directory
  outcome,       \* file -> "Cached" | "Unsaved" | "Skipped" | "Failed"
  pruned,        \* number of purge_removed_files_from_cache calls
  beforePrune,   \* the cache just before the purge
  prev,          \* what the previous run was and did
  used,          \* file -> the record in use when its cache row was last
                 \* written (kept across runs)
  call,          \* a direct call of one of the pure functions: the function
                 \* and its arguments
  result,        \* what that call returned or raised
  partial        \* the move set the script was stopped in the middle of, after
                 \* it had relocated a member and before it had visited them
                 \* all: [ids, dest] (kept across runs)

progVars == <<oracle, writable, fs, dirs, cacheFile, pc, work, mode, dry_run, no_cache, media_files,
              idx, cache, metadata, dest_file, pending, groupings, group_moves>>
obsVars == <<fs0, dirs0, loaded, headerError, classified, enriched, handed, hits,
             moved, moveFailed, failedIds, fsAtMove, outcome, pruned, beforePrune, prev, used, partial>>
pureVars == <<call, result>>
vars == <<progVars, obsVars, pureVars>>

NoMeta == Meta({}, None, None, None, None, None, None, None)
EmptyMap == [x \in {} |-> NoMeta]
EmptyOutcome == [x \in {} |-> "Discovered"]

\* no completed rescue run precedes
NoPrev == [completed |-> FALSE, scan |-> {}, cached |-> {}]

NoPartial == [ids |-> {}, dest |-> NoPath]

ProgInit ==
  /\ oracle \in [VideoNames -> ClassifyAnswers]
  /\ writable \in BOOLEAN
  /\ fs = InitialFiles
  /\ dirs = InitialDirs
  /\ cacheFile \in {AbsentFile, ForeignFile}
  /\ pc = "idle"
  /\ work = 0
  /\ mode \in {"rescue", "reorganize"}
  /\ dry_run = FALSE
  /\ no_cache = FALSE
  /\ media_files = <<>>
  /\ idx = 1
  /\ cache = EmptyCache
  /\ metadata = NoMeta
  /\ dest_file = NoPath
  /\ pending = {}
  /\ groupings = <<>>
  /\ group_moves = <<>>
  /\ fs0 = InitialFiles
  /\ dirs0 = InitialDirs
  /\ loaded = EmptyCache
  /\ headerError = FALSE
  /\ classified = {}
  /\ enriched = {}
  /\ handed = EmptyMap
  /\ hits = EmptyMap
  /\ moved = {}
  /\ moveFailed = {}
  /\ failedIds = {}
  /\ fsAtMove = InitialFiles
  /\ outcome = EmptyOutcome
  /\ pruned = 0
  /\ beforePrune = EmptyCache
  /\ prev = NoPrev
  /\ used = EmptyMap
  /\ partial = NoPartial

\* no direct call of a pure function is under way
NoCall == [fn |-> "none", name |-> <<>>, category |-> None, subfolders |-> None,
           title |-> None, year |-> None, season |-> None, episode |-> None]
NoResult == [done |-> FALSE, raised |-> FALSE, value |-> <<>>]

Init ==
  /\ ProgInit
  /\ call = NoCall
  /\ result = NoResult

Stopped == pc \in {"idle", "done", "crashed"}

\* the observations are reset when a run starts
ResetObs ==
  /\ fs0' = fs
  /\ dirs0' = dirs
  /\ classified' = {}
  /\ enriched' = {}
  /\ handed' = EmptyMap
  /\ hits' = EmptyMap
  /\ moved' = {}
  /\ moveFailed' = {}
  /\ failedIds' = {}
  /\ fsAtMove' = fs
  /\ outcome' = EmptyOutcome
  /\ pruned' = 0
  /\ beforePrune' = EmptyCache

With(f, k, v) == [x \in DOMAIN f \cup {k} |-> IF x = k THEN v ELSE f[x]]


\* what a starting run remembers of the run before it
Remember ==
  prev' = IF pc = "done" /\ mode = "rescue" /\ Len(media_files) > 0
          THEN [completed |-> TRUE, scan |-> { media_files[i] : i \in 1..Len(media_files) },
                cached |-> { f \in DOMAIN outcome : outcome[f] = "Cached" }]
          ELSE NoPrev

file_path == media_files[idx]

Cost(files) == IF Len(files) = 0 THEN 1 ELSE Len(files)

\* ----------------------------------------------------- main, --rescue
StartRescue(dr, nc, files) ==
  /\ Stopped
  /\ files \in get_files_in_directory(fs, ORPHANED_PATH)
  /\ work + Cost(files) <= MaxWork
  /\ work' = work + Cost(files)
  /\ mode = "rescue"
  /\ mode' = mode
  /\ dry_run' = dr
  /\ no_cache' = nc
  /\ media_files' = files
  /\ idx' = 1
  /\ cache' = IF Len(files) = 0 \/ nc THEN EmptyCache ELSE read_cache(cacheFile)
  /\ headerError' = (Len(files) > 0 /\ ~nc /\ HeaderMismatch(cacheFile))
  /\ loaded' = cache'
  /\ pc' = IF Len(files) = 0 THEN "done" ELSE "loop"
  /\ metadata' = NoMeta
  /\ dest_file' = NoPath
  /\ pending' = {}
  /\ groupings' = <<>>
  /\ group_moves' = <<>>
  /\ ResetObs
  /\ Remember
  /\ UNCHANGED pureVars
  /\ UNCHANGED <<oracle, writable, fs, dirs, cacheFile, used, partial>>

\* ------------------------------------------------------- process_files
InLoop == pc = "loop" /\ idx <= Len(media_files)

\* a lookup that finds the key and still asks the classification service
CacheHit_mut ==
  /\ InLoop
  /\ file_path \in DOMAIN cache
  /\ classified' = classified \cup {file_path}
  /\ metadata' = oracle[Name(file_path)]
  /\ hits' = With(hits, file_path, cache[file_path])
  /\ pc' = "synth"
  /\ UNCHANGED pureVars
  /\ UNCHANGED <<oracle, writable, fs, dirs, cacheFile, work, mode, dry_run, no_cache, media_files, idx,
                 cache, dest_file, pending, groupings, group_moves>>
  /\ UNCHANGED <<fs0, dirs0, loaded, headerError, enriched, handed, moved,
                 moveFailed, failedIds, fsAtMove, outcome, pruned, beforePrune, prev, used, partial>>

\* file_path in cache: the cached dict is the metadata
CacheHit ==
  /\ InLoop
  /\ file_path \in DOMAIN cache
  /\ metadata' = cache[file_path]
  /\ hits' = With(hits, file_path, cache[file_path])
  /\ pc' = "synth"
  /\ UNCHANGED pureVars
  /\ UNCHANGED <<oracle, writable, fs, dirs, cacheFile, work, mode, dry_run, no_cache, media_files, idx,
                 cache, dest_file, pending, groupings, group_moves>>
  /\ UNCHANGED <<fs0, dirs0, loaded, headerError, classified, enriched, handed, moved,
                 moveFailed, failedIds, fsAtMove, outcome, pruned, beforePrune, prev, used, partial>>

\* a skip that still stores a cache entry for the file
ClassifyFail_mut ==
  /\ InLoop
  /\ file_path \notin DOMAIN cache
  /\ classified' = classified \cup {file_path}
  /\ outcome' = With(outcome, file_path, "Skipped")
  /\ cache' = With(cache, file_path, cache_entry(NoMeta, file_path, NoPath))
  /\ idx' = idx + 1
  /\ UNCHANGED pureVars
  /\ UNCHANGED <<oracle, writable, fs, dirs, cacheFile, pc, work, mode, dry_run, no_cache, media_files,
                 metadata, dest_file, pending, groupings, group_moves>>
  /\ UNCHANGED <<fs0, dirs0, loaded, headerError, enriched, handed, hits, moved,
                 moveFailed, failedIds, fsAtMove, pruned, beforePrune, prev, used, partial>>

\* categorize_file returned None (API error, unparseable or non-dict answer)
ClassifyFail ==
  /\ InLoop
  /\ file_path \notin DOMAIN cache
  /\ classified' = classified \cup {file_path}
  /\ outcome' = With(outcome, file_path, "Skipped")
  /\ idx' = idx + 1
  /\ UNCHANGED pureVars
  /\ UNCHANGED <<oracle, writable, fs, dirs, cacheFile, pc, work, mode, dry_run, no_cache, media_files,
                 cache, metadata, dest_file, pending, groupings, group_moves>>
  /\ UNCHANGED <<fs0, dirs0, loaded, headerError, enriched, handed, hits, moved,
                 moveFailed, failedIds, fsAtMove, pruned, beforePrune, prev, used, partial>>

is_tv(m) == ~IsNone(m.category) /\ Val(m.category) \in {sTVShows, sKidsTV}

\* categorize_file returned a dict; metadata['category'] of line 307 raises
\* KeyError when the key is missing, which nothing catches
ClassifyOk ==
  /\ InLoop
  /\ file_path \notin DOMAIN cache
  /\ classified' = classified \cup {file_path}
  /\ metadata' = oracle[Name(file_path)]
  /\ pc' = IF "category" \notin metadata'.has THEN "crashed"
           ELSE IF is_tv(metadata') THEN "synth" ELSE "enrich"
  /\ UNCHANGED pureVars
  /\ UNCHANGED <<oracle, writable, fs, dirs, cacheFile, work, mode, dry_run, no_cache, media_files, idx,
                 cache, dest_file, pending, groupings, group_moves>>
  /\ UNCHANGED <<fs0, dirs0, loaded, headerError, enriched, handed, hits, moved,
                 moveFailed, failedIds, fsAtMove, outcome, pruned, beforePrune, prev, used, partial>>

\* fetch_metadata_tmdb returned None (no result or request error)
EnrichNone ==
  /\ pc = "enrich"
  /\ pc' = IF "title" \notin metadata.has THEN "crashed" ELSE "synth"
  /\ enriched' = IF "title" \notin metadata.has THEN enriched
                 ELSE enriched \cup {file_path}
  /\ UNCHANGED pureVars
  /\ UNCHANGED <<oracle, writable, fs, dirs, cacheFile, work, mode, dry_run, no_cache, media_files, idx,
                 cache, metadata, dest_file, pending, groupings, group_moves>>
  /\ UNCHANGED <<fs0, dirs0, loaded, headerError, classified, handed, hits, moved,
                 moveFailed, failedIds, fsAtMove, outcome, pruned, beforePrune, prev, used, partial>>

\* fetch_metadata_tmdb returned a result
EnrichOk(tmdb_data) ==
  /\ pc = "enrich"
  /\ "title" \in metadata.has
  /\ enriched' = enriched \cup {file_path}
  /\ metadata' = update_metadata_with_tmdb(metadata, tmdb_data)
  /\ pc' = "synth"
  /\ UNCHANGED pureVars
  /\ UNCHANGED <<oracle, writable, fs, dirs, cacheFile, work, mode, dry_run, no_cache, media_files, idx,
                 cache, dest_file, pending, groupings, group_moves>>
  /\ UNCHANGED <<fs0, dirs0, loaded, headerError, classified, handed, hits, moved,
                 moveFailed, failedIds, fsAtMove, outcome, pruned, beforePrune, prev, used, partial>>

\* ------------------------------------------------ rename_and_move_file
dest_path_of(m) ==
  build_destination_path(m.category, SubfolderList(m), m.title,
                         Get(m, "season", m.season, Some(<<>>)))

new_filename_of(m, path) ==
  generate_new_filename(Name(path), m.category, m.title,
                        Get(m, "year", m.year, Some(<<>>)),
                        Get(m, "season", m.season, Some(<<>>)),
                        Get(m, "episode", m.episode, Some(<<>>)))

dest_file_of(m, path) == PathJoin(dest_path_of(m), new_filename_of(m, path))

\* the entries of the source directory with the stem of the source file
move_set(files, src_file) ==
  { e \in files : /\ Parent(e.path) = Parent(src_file)
                  /\ Stem(Name(e.path)) = Stem(Name(src_file)) }

KeysMissing(m) == "category" \notin m.has \/ "title" \notin m.has

\* a build_destination_path that creates the category-less directory before
\* it raises
SynthValueError_mut ==
  /\ pc = "synth"
  /\ ~KeysMissing(metadata)
  /\ IsNone(metadata.category)
  /\ dirs' = dirs \cup {PathJoin(SHARED_MEDIA_PATH, <<"N","o","n","e">>)}
  /\ handed' = EmptyMap
  /\ hits' = EmptyMap
  /\ outcome' = With(outcome, file_path, "Failed")
  /\ idx' = idx + 1
  /\ pc' = "loop"
  /\ UNCHANGED pureVars
  /\ UNCHANGED <<oracle, writable, fs, cacheFile, work, mode, dry_run, no_cache, media_files,
                 cache, metadata, dest_file, pending, groupings, group_moves>>
  /\ UNCHANGED <<fs0, dirs0, loaded, headerError, classified, enriched, moved,
                 moveFailed, failedIds, fsAtMove, pruned, beforePrune, prev, used, partial>>

\* build_destination_path raises ValueError for a None category; the except
\* of process_files logs it and the loop goes on
SynthValueError ==
  /\ pc = "synth"
  /\ ~KeysMissing(metadata)
  /\ IsNone(metadata.category)
  /\ handed' = EmptyMap
  /\ hits' = EmptyMap
  /\ outcome' = With(outcome, file_path, "Failed")
  /\ idx' = idx + 1
  /\ pc' = "loop"
  /\ UNCHANGED pureVars
  /\ UNCHANGED <<oracle, writable, fs, dirs, cacheFile, work, mode, dry_run, no_cache, media_files,
                 cache, metadata, dest_file, pending, groupings, group_moves>>
  /\ UNCHANGED <<fs0, dirs0, loaded, headerError, classified, enriched, moved,
                 moveFailed, failedIds, fsAtMove, pruned, beforePrune, prev, used, partial>>

\* a build_destination_path that creates the directories in a dry run too
SynthDryRun_mut ==
  /\ pc = "synth"
  /\ ~KeysMissing(metadata)
  /\ ~IsNone(metadata.category)
  /\ dry_run
  /\ handed' = With(handed, file_path, metadata)
  /\ dirs' = dirs \cup Prefixes(dest_path_of(metadata))
  /\ dest_file' = dest_file_of(metadata, file_path)
  /\ pc' = "write"
  /\ UNCHANGED pureVars
  /\ UNCHANGED <<oracle, writable, fs, cacheFile, work, mode, dry_run, no_cache, media_files, idx,
                 cache, metadata, pending, groupings, group_moves>>
  /\ UNCHANGED <<fs0, dirs0, loaded, headerError, classified, enriched, hits, moved,
                 moveFailed, failedIds, fsAtMove, outcome, pruned, beforePrune, prev, used, partial>>

\* dry run: the destination is computed and logged
SynthDryRun ==
  /\ pc = "synth"
  /\ ~KeysMissing(metadata)
  /\ ~IsNone(metadata.category)
  /\ dry_run
  /\ handed' = With(handed, file_path, metadata)
  /\ dest_file' = dest_file_of(metadata, file_path)
  /\ pc' = "write"
  /\ UNCHANGED pureVars
  /\ UNCHANGED <<oracle, writable, fs, dirs, cacheFile, work, mode, dry_run, no_cache, media_files, idx,
                 cache, metadata, pending, groupings, group_moves>>
  /\ UNCHANGED <<fs0, dirs0, loaded, headerError, classified, enriched, hits, moved,
                 moveFailed, failedIds, fsAtMove, outcome, pruned, beforePrune, prev, used, partial>>

\* dest_path.mkdir(parents=True, exist_ok=True) succeeds; move_file_and_sidecars
\* lists the source directory
SynthMkdir ==
  /\ pc = "synth"
  /\ ~KeysMissing(metadata)
  /\ ~IsNone(metadata.category)
  /\ ~dry_run
  /\ handed' = With(handed, file_path, metadata)
  /\ dirs' = dirs \cup Prefixes(dest_path_of(metadata))
  /\ dest_file' = dest_file_of(metadata, file_path)
  /\ pending' = move_set(fs, file_path)
  /\ fsAtMove' = fs
  /\ pc' = IF pending' = {} THEN "write" ELSE "moving"
  /\ UNCHANGED pureVars
  /\ UNCHANGED <<oracle, writable, fs, cacheFile, work, mode, dry_run, no_cache, media_files, idx,
                 cache, metadata, groupings, group_moves>>
  /\ UNCHANGED <<fs0, dirs0, loaded, headerError, classified, enriched, hits, moved,
                 moveFailed, failedIds, outcome, pruned, beforePrune, prev, used, partial>>

\* the mkdir raises OSError, or a key rename_and_move_file indexes is
\* missing (KeyError): process_files catches ValueError only
SynthCrash ==
  /\ pc = "synth"
  /\ \/ KeysMissing(metadata)
     \/ /\ ~IsNone(metadata.category)
        /\ ~dry_run
        /\ ~(Prefixes(dest_path_of(metadata)) \subseteq dirs)
  /\ handed' = With(handed, file_path, metadata)
  /\ pc' = "crashed"
  /\ UNCHANGED pureVars
  /\ UNCHANGED <<oracle, writable, fs, dirs, cacheFile, work, mode, dry_run, no_cache, media_files, idx,
                 cache, metadata, dest_file, pending, groupings, group_moves>>
  /\ UNCHANGED <<fs0, dirs0, loaded, headerError, classified, enriched, hits, moved,
                 moveFailed, failedIds, fsAtMove, outcome, pruned, beforePrune, prev, used, partial>>


\* ----------------------------------------------- move_file_and_sidecars
\* every entry of the move set sent to dest_file itself
sidecar_target_mut(dest, item_path) == dest

\* where shutil.move is asked to put an entry of the move set
sidecar_target(dest, item_path) == Append(Parent(dest), Name(item_path))

\* one iteration of the for loop whose shutil.move succeeds
MoveItemOk(e) ==
  /\ pc = "moving"
  /\ e \in pending
  /\ ~MoveImpossible(fs, dirs, e.path, sidecar_target(dest_file, e.path))
  /\ fs' = MoveResult(fs, dirs, e.path, sidecar_target(dest_file, e.path))
  /\ moved' = moved \cup {e.id}
  /\ pending' = pending \ {e}
  /\ pc' = IF pending' = {} THEN "write" ELSE "moving"
  /\ UNCHANGED pureVars
  /\ UNCHANGED <<oracle, writable, dirs, cacheFile, work, mode, dry_run, no_cache, media_files, idx,
                 cache, metadata, dest_file, groupings, group_moves>>
  /\ UNCHANGED <<fs0, dirs0, loaded, headerError, classified, enriched, handed, hits,
                 moveFailed, failedIds, fsAtMove, outcome, pruned, beforePrune, prev, used, partial>>

\* an iteration whose shutil.move raises: the try encloses the whole loop,
\* so the except logs and the function returns
MoveItemFail(e) ==
  /\ pc = "moving"
  /\ e \in pending
  /\ moveFailed' = moveFailed \cup {file_path}
  /\ failedIds' = failedIds \cup {e.id}
  /\ pending' = {}
  /\ pc' = "write"
  /\ UNCHANGED pureVars
  /\ UNCHANGED <<oracle, writable, fs, dirs, cacheFile, work, mode, dry_run, no_cache, media_files, idx,
                 cache, metadata, dest_file, groupings, group_moves>>
  /\ UNCHANGED <<fs0, dirs0, loaded, headerError, classified, enriched, handed, hits,
                 moved, fsAtMove, outcome, pruned, beforePrune, prev, used, partial>>

\* lines 318-331: the cache entry is stored and appended to the file
WriteCache ==
  /\ pc = "write"
  /\ writable
  /\ LET entry == cache_entry(metadata, file_path, dest_file)
     IN /\ cache' = With(cache, file_path, entry)
        /\ cacheFile' = write_cache_entry(cacheFile, entry)
  /\ outcome' = With(outcome, file_path, "Cached")
  /\ used' = With(used, file_path, [metadata EXCEPT !.original_path = file_path,
                                                       !.new_path = dest_file])
  /\ idx' = idx + 1
  /\ handed' = EmptyMap
  /\ hits' = EmptyMap
  /\ pc' = "loop"
  /\ UNCHANGED pureVars
  /\ UNCHANGED <<oracle, writable, fs, dirs, work, mode, dry_run, no_cache, media_files,
                 metadata, dest_file, pending, groupings, group_moves>>
  /\ UNCHANGED <<fs0, dirs0, loaded, headerError, classified, enriched,
                 moved, moveFailed, failedIds, fsAtMove, pruned, beforePrune, prev, partial>>

\* lines 286-287: opening the cache file raised; write_cache_entry logs and
\* returns, the dict already holds the entry (line 329) and the loop goes on
\* with no row on disk for this file
WriteCacheFail ==
  /\ pc = "write"
  /\ ~writable
  /\ cache' = With(cache, file_path, cache_entry(metadata, file_path, dest_file))
  /\ outcome' = With(outcome, file_path, "Unsaved")
  /\ used' = With(used, file_path, [metadata EXCEPT !.original_path = file_path,
                                                       !.new_path = dest_file])
  /\ idx' = idx + 1
  /\ handed' = EmptyMap
  /\ hits' = EmptyMap
  /\ pc' = "loop"
  /\ UNCHANGED pureVars
  /\ UNCHANGED <<oracle, writable, fs, dirs, cacheFile, work, mode, dry_run, no_cache, media_files,
                 metadata, dest_file, pending, groupings, group_moves>>
  /\ UNCHANGED <<fs0, dirs0, loaded, headerError, classified, enriched,
                 moved, moveFailed, failedIds, fsAtMove, pruned, beforePrune, prev, partial>>

\* line 336: after the loop
Prune ==
  /\ pc = "loop"
  /\ idx > Len(media_files)
  /\ beforePrune' = cache
  /\ cache' = purge_removed_files_from_cache(cache, media_files)
  /\ pruned' = pruned + 1
  /\ pc' = "done"
  /\ UNCHANGED pureVars
  /\ UNCHANGED <<oracle, writable, fs, dirs, cacheFile, work, mode, dry_run, no_cache, media_files, idx,
                 metadata, dest_file, pending, groupings, group_moves>>
  /\ UNCHANGED <<fs0, dirs0, loaded, headerError, classified, enriched, handed, hits,
                 moved, moveFailed, failedIds, fsAtMove, outcome, prev, used, partial>>

\* the operator stops the script (or the machine goes down) at any point:
\* the process and everything it held in memory are gone, the disk stays
Interrupt ==
  /\ ~Stopped
  /\ pc' = "idle"
  /\ media_files' = <<>>
  /\ idx' = 1
  /\ cache' = EmptyCache
  /\ metadata' = NoMeta
  /\ dest_file' = NoPath
  /\ pending' = {}
  /\ groupings' = <<>>
  /\ group_moves' = <<>>
  /\ loaded' = EmptyCache
  /\ headerError' = FALSE
  /\ ResetObs
  /\ partial' = IF /\ mode = "rescue"
                    /\ pc = "moving"
                    /\ pending # move_set(fsAtMove, file_path)
                 THEN [ids |-> { e.id : e \in move_set(fsAtMove, file_path) },
                       dest |-> Parent(dest_file)]
                 ELSE partial
  /\ UNCHANGED pureVars
  /\ UNCHANGED <<oracle, writable, fs, dirs, cacheFile, work, mode, dry_run, no_cache, prev, used>>

\* ---------------------------------------------------- main, --reorganize
\* what the grouping call may answer (besides failing): lists of groups;
\* a group is [has, group_name, titles]
sG == <<"G", ":">>
sH == <<"H">>
GroupingAnswers ==
  { << [has |-> {"group_name", "titles"}, group_name |-> Some(sG),
        titles |-> Some(<< <<"x">>, <<"a">> >>)] >>,
    << [has |-> {"group_name", "titles"}, group_name |-> Some(<<>>),
        titles |-> Some(<< <<"x">> >>)],
       [has |-> {"group_name", "titles"}, group_name |-> Some(sH),
        titles |-> Some(<< <<"x">>, <<"x">> >>)] >>,
    << [has |-> {"group_name"}, group_name |-> Some(sG), titles |-> None],
       [has |-> {"group_name", "titles"}, group_name |-> None,
        titles |-> Some(<< <<"a">> >>)] >>,
    \* the same title listed by two groups
    << [has |-> {"group_name", "titles"}, group_name |-> Some(sG),
        titles |-> Some(<< <<"x">> >>)],
       [has |-> {"group_name", "titles"}, group_name |-> Some(sH),
        titles |-> Some(<< <<"x">> >>)] >>,
    \* a group that lists no file of the scan
    << [has |-> {"group_name", "titles"}, group_name |-> Some(sH),
        titles |-> Some(<< <<"a">> >>)] >> }

max_files_to_think_of_at_once == 500

category_path == Append(SHARED_MEDIA_PATH, CATEGORIES[1])

\* reorganize_shared_media up to the call of move_files_to_groupings, for
\* the one category of CATEGORIES.  answer is what get_grouping_data_from_api
\* gave for the single chunk (the scan is shorter than the chunk size); <<>>
\* stands for a failed call or a dict without groupings.
StartReorganize(dr, files, answer) ==
  /\ Stopped
  /\ files \in (IF category_path \in dirs THEN get_files_in_directory(fs, category_path)
                ELSE { <<>> })
  /\ Len(files) <= max_files_to_think_of_at_once
  /\ work + Cost(files) <= MaxWork
  /\ work' = work + Cost(files)
  /\ mode = "reorganize"
  /\ mode' = mode
  /\ dry_run' = dr
  /\ no_cache' = FALSE
  /\ media_files' = files
  /\ idx' = 1
  /\ groupings' = IF Len(files) = 0 THEN <<>> ELSE answer
  /\ pc' = IF groupings' = <<>> THEN "done" ELSE "group"
  /\ cache' = EmptyCache
  /\ loaded' = EmptyCache
  /\ headerError' = FALSE
  /\ metadata' = NoMeta
  /\ dest_file' = NoPath
  /\ pending' = {}
  /\ group_moves' = <<>>
  /\ ResetObs
  /\ Remember
  /\ UNCHANGED pureVars
  /\ UNCHANGED <<oracle, writable, fs, dirs, cacheFile, used, partial>>

\* ----------------------------------------------- move_files_to_groupings
group == groupings[idx]
group_name == IF "group_name" \in group.has THEN group.group_name ELSE None
group_titles == IF "titles" \in group.has /\ ~IsNone(group.titles)
                THEN Val(group.titles) ELSE <<>>
\* a group folder named by the group name as it came
group_path_mut == PathJoin(category_path, IF IsNone(group_name) THEN <<>> ELSE Val(group_name))

group_path == PathJoin(category_path, sanitize_filename(group_name))

\* [f for f in files if Path(f).stem == title], for the titles in order
RECURSIVE matched_files(_, _)
matched_files(files, title) ==
  IF Len(files) = 0 THEN <<>>
  ELSE (IF Stem(Name(files[1])) = title THEN <<files[1]>> ELSE <<>>)
       \o matched_files(Tail(files), title)

RECURSIVE files_of_titles(_, _)
files_of_titles(files, titles) ==
  IF Len(titles) = 0 THEN <<>>
  ELSE matched_files(files, titles[1]) \o files_of_titles(files, Tail(titles))

\* a skip that comes after the mkdir of the group folder
GroupSkip_mut ==
  /\ pc = "group"
  /\ idx <= Len(groupings)
  /\ (~Truthy(group_name) \/ Len(group_titles) = 0)
  /\ dirs' = dirs \cup Prefixes(group_path)
  /\ idx' = idx + 1
  /\ UNCHANGED pureVars
  /\ UNCHANGED <<oracle, writable, fs, cacheFile, pc, work, mode, dry_run, no_cache, media_files,
                 cache, metadata, dest_file, pending, groupings, group_moves>>
  /\ UNCHANGED obsVars

\* not group_name or not group_titles: continue
GroupSkip ==
  /\ pc = "group"
  /\ idx <= Len(groupings)
  /\ (~Truthy(group_name) \/ Len(group_titles) = 0)
  /\ idx' = idx + 1
  /\ UNCHANGED pureVars
  /\ UNCHANGED <<oracle, writable, fs, dirs, cacheFile, pc, work, mode, dry_run, no_cache, media_files,
                 cache, metadata, dest_file, pending, groupings, group_moves>>
  /\ UNCHANGED obsVars

\* a group in a dry run: only log lines
GroupDryRun ==
  /\ pc = "group"
  /\ idx <= Len(groupings)
  /\ Truthy(group_name) /\ Len(group_titles) > 0
  /\ dry_run
  /\ idx' = idx + 1
  /\ UNCHANGED pureVars
  /\ UNCHANGED <<oracle, writable, fs, dirs, cacheFile, pc, work, mode, dry_run, no_cache, media_files,
                 cache, metadata, dest_file, pending, groupings, group_moves>>
  /\ UNCHANGED obsVars

\* the group folder is created and the matching files are lined up
GroupMkdir ==
  /\ pc = "group"
  /\ idx <= Len(groupings)
  /\ Truthy(group_name) /\ Len(group_titles) > 0
  /\ ~dry_run
  /\ dirs' = dirs \cup Prefixes(group_path)
  /\ group_moves' = files_of_titles(media_files, group_titles)
  /\ IF group_moves' = <<>>
     THEN idx' = idx + 1 /\ pc' = "group"
     ELSE idx' = idx /\ pc' = "gmove"
  /\ UNCHANGED pureVars
  /\ UNCHANGED <<oracle, writable, fs, cacheFile, work, mode, dry_run, no_cache, media_files,
                 cache, metadata, dest_file, pending, groupings>>
  /\ UNCHANGED obsVars

\* group_path.mkdir raises: nothing in reorganize_shared_media catches it
GroupCrash ==
  /\ pc = "group"
  /\ idx <= Len(groupings)
  /\ Truthy(group_name) /\ Len(group_titles) > 0
  /\ ~dry_run
  /\ ~(Prefixes(group_path) \subseteq dirs)
  /\ pc' = "crashed"
  /\ UNCHANGED pureVars
  /\ UNCHANGED <<oracle, writable, fs, dirs, cacheFile, work, mode, dry_run, no_cache, media_files, idx,
                 cache, metadata, dest_file, pending, groupings, group_moves>>
  /\ UNCHANGED obsVars

AfterGroupMove ==
  /\ group_moves' = Tail(group_moves)
  /\ IF group_moves' = <<>>
     THEN idx' = idx + 1 /\ pc' = "group"
     ELSE idx' = idx /\ pc' = "gmove"

\* shutil.move(file_path, dest_file_path) succeeds
GroupMoveOk ==
  /\ pc = "gmove"
  /\ LET src == group_moves[1]
         dst == Append(group_path, Name(src))
     IN /\ ~MoveImpossible(fs, dirs, src, dst)
        /\ fs' = MoveResult(fs, dirs, src, dst)
        /\ moved' = moved \cup {IdAt(fs, src)}
  /\ AfterGroupMove
  /\ UNCHANGED pureVars
  /\ UNCHANGED <<oracle, writable, dirs, cacheFile, work, mode, dry_run, no_cache, media_files,
                 cache, metadata, dest_file, pending, groupings>>
  /\ UNCHANGED <<fs0, dirs0, loaded, headerError, classified, enriched, handed, hits,
                 moveFailed, failedIds, fsAtMove, outcome, pruned, beforePrune, prev, used, partial>>

\* shutil.move raises; the except inside the loop logs and the loop goes on
GroupMoveFail ==
  /\ pc = "gmove"
  /\ moveFailed' = moveFailed \cup {group_moves[1]}
  /\ failedIds' = failedIds \cup { e.id : e \in { x \in fs : x.path = group_moves[1] } }
  /\ AfterGroupMove
  /\ UNCHANGED pureVars
  /\ UNCHANGED <<oracle, writable, fs, dirs, cacheFile, work, mode, dry_run, no_cache, media_files,
                 cache, metadata, dest_file, pending, groupings>>
  /\ UNCHANGED <<fs0, dirs0, loaded, headerError, classified, enriched, handed, hits,
                 moved, fsAtMove, outcome, pruned, beforePrune, prev, used, partial>>

\* the for loop over the groupings is over
GroupsDone ==
  /\ pc = "group"
  /\ idx > Len(groupings)
  /\ pc' = "done"
  /\ UNCHANGED pureVars
  /\ UNCHANGED <<oracle, writable, fs, dirs, cacheFile, work, mode, dry_run, no_cache, media_files, idx,
                 cache, metadata, dest_file, pending, groupings, group_moves>>
  /\ UNCHANGED obsVars

\* ---------------------------------------------------------- specification
\* the script is started with --rescue, with or without --dry-run, --no-cache
RunRescue ==
  /\ Stopped
  /\ mode = "rescue"
  /\ \E dr \in BOOLEAN, nc \in BOOLEAN :
       \E files \in get_files_in_directory(fs, ORPHANED_PATH) : StartRescue(dr, nc, files)

\* the script is started with --reorganize
RunReorganize ==
  /\ Stopped
  /\ mode = "reorganize"
  /\ \E dr \in BOOLEAN, answer \in GroupingAnswers \cup { <<>> } :
       \E files \in (IF category_path \in dirs
                     THEN get_files_in_directory(fs, category_path) ELSE { <<>> }) :
         StartReorganize(dr, files, answer)

Next ==
  \/ RunRescue
  \/ CacheHit
  \/ ClassifyFail
  \/ ClassifyOk
  \/ EnrichNone
  \/ \E t \in TmdbAnswers : EnrichOk(t)
  \/ SynthValueError
  \/ SynthDryRun
  \/ SynthMkdir
  \/ SynthCrash
  \/ \E e \in pending : MoveItemOk(e)
  \/ \E e \in pending : MoveItemFail(e)
  \/ WriteCache
  \/ WriteCacheFail
  \/ Prune
  \/ Interrupt
  \/ RunReorganize
  \/ GroupSkip
  \/ GroupDryRun
  \/ GroupMkdir
  \/ GroupCrash
  \/ GroupMoveOk
  \/ GroupMoveFail
  \/ GroupsDone

Spec == Init /\ [][Next]_vars

\* ------------------------------------- the pure functions, called directly
\* (as test_organize_media.py calls them), on arguments from bounded sets
\* longest string handed to sanitize_filename
MaxStr == 3
\* longest subfolder list
MaxSubs == 3

\* one clean character and every character of the sanitizer's class
SanitizeAlphabet == {"a", "<", ">", ":", "\"", "/", "\\", "|", "?", "*"}
SanitizeInputs ==
  {None} \cup { Some(s) : s \in UNION { [1..n -> SanitizeAlphabet] : n \in 0..MaxStr } }

sA == <<"A">>
sBColon == <<"B", ":">>
SubfolderInputs ==
  {None} \cup { Some(l) : l \in UNION { [1..n -> {sA, sBColon}] : n \in 0..MaxSubs } }

sOther == <<"X", "/">>
CategoryInputs ==
  {None, Some(sMovies), Some(sKidsMovies), Some(sTVShows), Some(sKidsTV), Some(sAnime),
   Some(sOther)}
TitleInputs == {None, Some(<<>>), Some(<<"T">>), Some(<<"T", ":">>), Some(<<":">>)}
SeasonInputs == {None, Some(<<>>), Some(<<"1">>), Some(<<"0", "1">>), Some(<<"1", "2">>),
                 Some(<<"x">>)}
EpisodeInputs == {None, Some(<<"2">>), Some(<<"0", "2">>), Some(<<"x">>)}
YearInputs == {None, Some(<<>>), Some(<<"2", "0", "2", "0">>)}
NameInputs == {nA_mkv, <<"a", ".", "b", ".", "M", "K", "V">>, <<"n", "o", "e", "x", "t">>}

SanitizeCalls == { [NoCall EXCEPT !.fn = "sanitize_filename", !.title = s] : s \in SanitizeInputs }
DedupeCalls == { [NoCall EXCEPT !.fn = "dedupe_sequential", !.subfolders = l] : l \in SubfolderInputs }
BuildCalls ==
  { [NoCall EXCEPT !.fn = "build_destination_path", !.category = c, !.subfolders = l,
                   !.title = t, !.season = se] :
      c \in CategoryInputs, l \in SubfolderInputs, t \in TitleInputs, se \in SeasonInputs }
GenerateCalls ==
  { [NoCall EXCEPT !.fn = "generate_new_filename", !.name = n, !.category = c, !.title = t,
                   !.year = y, !.season = se, !.episode = ep] :
      n \in NameInputs, c \in CategoryInputs, t \in TitleInputs, y \in YearInputs,
      se \in {None, Some(<<"1">>), Some(<<"x">>)}, ep \in EpisodeInputs }

\* a list argument as the function reads it: a null list is falsy
ListOf(o) == IF IsNone(o) THEN <<>> ELSE Val(o)

Returned(v) == [done |-> TRUE, raised |-> FALSE, value |-> v]
Raised == [done |-> TRUE, raised |-> TRUE, value |-> <<>>]

InitPure ==
  /\ ProgInit
  /\ oracle = [n \in VideoNames |-> NoMeta]
  /\ writable
  /\ cacheFile = AbsentFile
  /\ mode = "rescue"
  /\ call \in SanitizeCalls \cup DedupeCalls \cup BuildCalls \cup GenerateCalls
  /\ result = NoResult

ApplySanitize ==
  /\ call.fn = "sanitize_filename"
  /\ ~result.done
  /\ result' = Returned(sanitize_filename(call.title))
  /\ UNCHANGED <<progVars, obsVars, call>>

ApplyDedupe ==
  /\ call.fn = "dedupe_sequential"
  /\ ~result.done
  /\ result' = Returned(dedupe_sequential(ListOf(call.subfolders)))
  /\ UNCHANGED <<progVars, obsVars, call>>

\* with dry_run=True: the path is computed, no directory is made
ApplyBuild ==
  /\ call.fn = "build_destination_path"
  /\ ~result.done
  /\ result' = IF IsNone(call.category) THEN Raised
                ELSE Returned(build_destination_path(call.category, ListOf(call.subfolders),
                                                     call.title, call.season))
  /\ UNCHANGED <<progVars, obsVars, call>>

ApplyGenerate ==
  /\ call.fn = "generate_new_filename"
  /\ ~result.done
  /\ result' = Returned(generate_new_filename(call.name, call.category, call.title,
                                               call.year, call.season, call.episode))
  /\ UNCHANGED <<progVars, obsVars, call>>

NextPure ==
  \/ ApplySanitize
  \/ ApplyDedupe
  \/ ApplyBuild
  \/ ApplyGenerate

SpecPure == InitPure /\ [][NextPure]_vars

TypeOK ==
  /\ pc \in {"idle", "loop", "enrich", "synth", "moving", "write", "group", "gmove",
             "done", "crashed"}
  /\ work \in 0..MaxWork
  /\ writable \in BOOLEAN
  /\ \A e1, e2 \in fs : e1.path = e2.path => e1 = e2


\* ================================================================ claims
ScanSet == { media_files[i] : i \in 1..Len(media_files) }

IsPrefixSeq(s1, s2) == Len(s1) <= Len(s2) /\ SubSeq(s2, 1, Len(s1)) = s1

\* a rescue run with the cache enabled that follows a completed rescue run
\* and scans the same files
SecondRun ==
  /\ mode = "rescue"
  /\ prev.completed
  /\ prev.scan = ScanSet
  /\ ~no_cache

\* C1 as stated: in a second run over an unchanged scan with the cache
\* enabled (and loaded without error) there is no classification call, no
\* enrichment call and no move.
C1_Original ==
  (SecondRun /\ ~headerError) =>
     (classified = {} /\ enriched = {} /\ moved = {})

\* C1 as amended: in a second run over an unchanged scan with the cache
\* enabled, no classification or enrichment call is made for a file whose
\* record the run loaded; every file that reached Cached in the first run
\* is loaded when the store has the expected header; a dry second run moves
\* nothing.  (Files skipped or failed before are classified again, and a
\* real second run moves the files it finds in the cache.)
C1_Amended ==
  SecondRun =>
     /\ (classified \cup enriched) \cap DOMAIN loaded = {}
     /\ (~headerError => prev.cached \subseteq DOMAIN loaded)
     /\ (dry_run => moved = {})

\* a completed second run that classified nothing and moved files on cache hits
C1_Witness ==
  /\ SecondRun /\ ~headerError
  /\ pc = "done"
  /\ prev.cached # {}
  /\ classified = {}
  /\ moved # {}

\* C2: a discovered file whose path is a key of the cache is never
\* classified nor enriched, and the metadata handed to path synthesis is the
\* cached record itself.
C2_CacheHitShortCircuits ==
  mode = "rescue" =>
     /\ \A f \in DOMAIN loaded \cap ScanSet :
          /\ f \notin classified
          /\ f \notin enriched
          /\ (f \in DOMAIN handed => handed[f] = loaded[f])
     /\ ((pc = "synth" /\ file_path \in DOMAIN loaded) => metadata = loaded[file_path])

\* a cache hit whose record went through path synthesis
C2_Witness ==
  /\ mode = "rescue"
  /\ pc = "write"
  /\ file_path \in DOMAIN loaded
  /\ file_path \in DOMAIN handed
  /\ handed[file_path] = loaded[file_path]

\* C3: after a load that met a header different from the fixed column list
\* no file is classified, moved or cached.
C3_HeaderMismatchIsFatal ==
  headerError =>
     /\ classified = {}
     /\ moved = {}
     /\ DOMAIN cache = {}
     /\ \A f \in DOMAIN outcome : outcome[f] # "Cached"

\* C4: the persisted store holds at most one row for any original_path.
C4_OriginalPathUnique ==
  \A i, j \in 1..Len(cacheFile.rows) :
     cacheFile.rows[i].original_path = cacheFile.rows[j].original_path => i = j

\* the row of every file that reached Cached in this run is in the file
CachedRowsPersisted ==
  \A f \in DOMAIN outcome :
     outcome[f] = "Cached" =>
        \E i \in 1..Len(cacheFile.rows) : cacheFile.rows[i] = CsvRow(cache[f])

\* C5: every step leaves the rows already in the store in place and
\* unchanged (rows are only appended, the header is never rewritten), and
\* after every step the row of each file that reached Cached is persisted.
C5_AppendOnly ==
  [][ /\ IsPrefixSeq(cacheFile.rows, cacheFile'.rows)
      /\ (cacheFile.exists => (cacheFile'.exists /\ cacheFile'.header = cacheFile.header))
      /\ CachedRowsPersisted' ]_vars

\* the second file is about to start and the first one's row is on disk
C5_Witness ==
  /\ mode = "rescue"
  /\ pc = "loop"
  /\ idx = 2
  /\ Len(media_files) = 2
  /\ media_files[1] \in DOMAIN outcome
  /\ outcome[media_files[1]] = "Cached"
  /\ Len(cacheFile.rows) >= 2


\* C6: the purge runs once per run of process_files, after the last file,
\* and leaves in the in-memory cache exactly the keys of the scan, each with
\* the record it had.
C6_PruneExact ==
  mode = "rescue" =>
     /\ pruned <= 1
     /\ (pruned = 1 <=> (pc = "done" /\ Len(media_files) > 0))
     /\ (pruned = 1 =>
           /\ idx = Len(media_files) + 1
           /\ DOMAIN cache = DOMAIN beforePrune \cap ScanSet
           /\ \A k \in DOMAIN cache : cache[k] = beforePrune[k])

\* a purge that dropped a key and kept another
C6_Witness ==
  /\ mode = "rescue"
  /\ pruned = 1
  /\ DOMAIN beforePrune \ ScanSet # {}
  /\ DOMAIN cache # {}

\* the value of a key of a dict, None and "" taken as the same (the CSV
\* form of null)
FieldOf(m, key, val) ==
  IF key \in m.has /\ ~IsNone(val) THEN val ELSE Some(<<>>)

\* C7: the record the cache load returns for a file equals, field for
\* field, the record in use when the file's row was written (null and the
\* empty string are not told apart here; the subfolder list is a field).
C7_RoundTrip ==
  (mode = "rescue" /\ ~Stopped) =>
     \A f \in DOMAIN loaded \cap DOMAIN used :
        LET r == loaded[f]
            u == used[f]
        IN /\ r.original_path = u.original_path
           /\ r.new_path = u.new_path
           /\ FieldOf(r, "category", r.category) = FieldOf(u, "category", u.category)
           /\ FieldOf(r, "title", r.title) = FieldOf(u, "title", u.title)
           /\ FieldOf(r, "show_name", r.show_name) = FieldOf(u, "show_name", u.show_name)
           /\ FieldOf(r, "year", r.year) = FieldOf(u, "year", u.year)
           /\ FieldOf(r, "season", r.season) = FieldOf(u, "season", u.season)
           /\ FieldOf(r, "episode", r.episode) = FieldOf(u, "episode", u.episode)
           /\ SubfolderList(r) = SubfolderList(u)

\* the entry with a given content sits in a given directory
InDir(files, id, dir) == \E e \in files : e.id = id /\ Parent(e.path) = dir

\* the entries of the directory of the file in process, at the time the
\* Move Executor listed it
SourceDirEntries == { e \in fsAtMove : Parent(e.path) = Parent(file_path) }

\* the Move Executor has run for the file in process
MoveExecutorDone == mode = "rescue" /\ pc = "write" /\ ~dry_run

\* C8: after a Move Executor run without a move failure, every entry of the
\* source directory with the stem of the primary file is in the destination
\* directory under its own extension and gone from the source directory,
\* and every entry with another stem is where it was.
C8_MoveSetRelocated ==
  (MoveExecutorDone /\ file_path \notin moveFailed) =>
     \A e \in SourceDirEntries :
        IF Stem(Name(e.path)) = Stem(Name(file_path))
        THEN /\ e.path \notin PathsOf(fs)
             /\ \E n \in fs : /\ n.id = e.id
                              /\ Parent(n.path) = Parent(dest_file)
                              /\ Suffix(Name(n.path)) = Suffix(Name(e.path))
        ELSE e \in fs

\* a primary file and its sidecar relocated, a file with another stem left
C8_Witness ==
  /\ MoveExecutorDone
  /\ file_path \notin moveFailed
  /\ Cardinality(move_set(fsAtMove, file_path)) = 2
  /\ \E e \in SourceDirEntries : Stem(Name(e.path)) # Stem(Name(file_path)) /\ e \in fs
  /\ \A e \in move_set(fsAtMove, file_path) : InDir(fs, e.id, Parent(dest_file))

\* C9: after the Move Executor, every member of the move set other than the
\* ones whose own move failed is relocated to the destination directory.
C9_BestEffortMoves ==
  MoveExecutorDone =>
     \A e \in move_set(fsAtMove, file_path) :
        e.id \notin failedIds => InDir(fs, e.id, Parent(dest_file))

\* C10: a dry run, of the rescue pipeline or of the Grouping Engine, leaves
\* every file and every directory as it found them.
C10_DryRunNoMutation ==
  dry_run => (fs = fs0 /\ dirs = dirs0)

\* a dry run went through path synthesis for a file whose destination
\* directory does not exist and whose move set is not empty
C10_Witness ==
  /\ dry_run
  /\ mode = "rescue"
  /\ pc = "write"
  /\ move_set(fs, file_path) # {}
  /\ Parent(dest_file) \notin dirs

\* the category the classification service gives a file, when it gives one
FreshCategory(f) ==
  LET m == oracle[Name(f)]
  IN IF "category" \in m.has THEN m.category ELSE None

\* C11: no call to the Enrichment Adapter is made for a freshly classified
\* file whose category is episodic (TV Shows, Kids TV or Anime).
C11_NoEnrichmentForEpisodic ==
  mode = "rescue" =>
     \A f \in enriched :
        ~(~IsNone(FreshCategory(f)) /\ Val(FreshCategory(f)) \in EpisodicCategories)

\* the step in which categorize_file is called for the file in process and
\* the loop goes straight to the next file: the call returned None
SkipStep ==
  /\ InLoop
  /\ file_path \notin classified
  /\ file_path \in classified'
  /\ idx' = idx + 1

\* C12: when classification returns nothing usable the file ends in
\* Skipped, and the step changes no file, no directory, no cache record (in
\* memory or on disk) and makes no enrichment call; a Skipped file is never
\* enriched nor cached later in the run.
C12_ClassificationFailureSkips ==
  [][ /\ SkipStep =>
           /\ file_path \in DOMAIN outcome' /\ outcome'[file_path] = "Skipped"
           /\ enriched' = enriched
           /\ fs' = fs /\ dirs' = dirs
           /\ cache' = cache /\ cacheFile' = cacheFile
      /\ \A f \in DOMAIN outcome' :
           outcome'[f] = "Skipped" => (f \notin enriched' /\ f \notin DOMAIN cache') ]_vars

\* a run that skipped a file and went on to the end; the file is in place
C12_Witness ==
  /\ mode = "rescue"
  /\ pc = "done"
  /\ ~dry_run
  /\ \E f \in DOMAIN outcome : outcome[f] = "Skipped" /\ f \in PathsOf(fs)
  /\ \E f \in DOMAIN outcome : outcome[f] = "Cached"

\* path synthesis is about to run on a record whose category is null
NullCategoryAtSynthesis ==
  /\ pc = "synth"
  /\ ~KeysMissing(metadata)
  /\ IsNone(metadata.category)

\* C13: path synthesis on a record whose category is null fails: the file
\* ends in Failed, the loop goes on, and the step creates no directory, moves
\* no file and writes no cache record; a Failed file is not cached later in
\* the run.
C13_NullCategoryFails ==
  [][ /\ (NullCategoryAtSynthesis /\ pc' # "idle") =>
           /\ file_path \in DOMAIN outcome' /\ outcome'[file_path] = "Failed"
           /\ pc' = "loop" /\ idx' = idx + 1
           /\ fs' = fs /\ dirs' = dirs
           /\ cache' = cache /\ cacheFile' = cacheFile
      /\ \A f \in DOMAIN outcome' :
           outcome'[f] = "Failed" => f \notin DOMAIN cache' ]_vars

\* a real run that failed a file on its null category and went on; the file
\* and its sidecar are where they were
C13_Witness ==
  /\ mode = "rescue"
  /\ pc = "done"
  /\ ~dry_run
  /\ \E f \in DOMAIN outcome :
        /\ outcome[f] = "Failed"
        /\ move_set(fs0, f) # {}
        /\ move_set(fs0, f) \subseteq fs

\* C14 (safety part): the rescue run is never ended by what happens to one
\* file, and every file the loop has passed has its terminal state.
C14_BatchNeverStops ==
  mode = "rescue" =>
     /\ pc # "crashed"
     /\ (pc \in {"loop", "done"} =>
           \A i \in 1..Len(media_files) : i < idx => media_files[i] \in DOMAIN outcome)

\* C15: two distinct discovered files relocated in one run end at two
\* different paths, both still present.
C15_NoDestinationCollision ==
  mode = "rescue" =>
     \A f, g \in ScanSet :
        (f # g /\ IdAt(fs0, f) \in moved /\ IdAt(fs0, g) \in moved) =>
           \E e1, e2 \in fs : /\ e1.id = IdAt(fs0, f)
                              /\ e2.id = IdAt(fs0, g)
                              /\ e1.path # e2.path

\* a real rescue run that went to its end with every scanned file routed
\* and no move failure
CleanRun ==
  /\ mode = "rescue"
  /\ pc = "done"
  /\ ~dry_run
  /\ moveFailed = {}
  /\ \A f \in ScanSet : f \in DOMAIN outcome /\ outcome[f] \in {"Cached", "Unsaved"}

\* C16 (what convergence requires of one re-run): once a run was stopped
\* in the middle of a move set, a later run that goes to its end with every
\* file it found routed and no move failure leaves no member of that move
\* set outside the destination directory.
C16_RetryConverges ==
  (CleanRun /\ partial.ids # {}) =>
     \A e \in fs : e.id \in partial.ids => Parent(e.path) = partial.dest

\* ---- the pure functions (checked under SpecPure)
\* the characters the sanitizer deletes, as the claim lists them
C17_Forbidden == {"<", ">", ":", "\"", "/", "\\", "|", "?", "*"}
C17_Kept(c) == c \notin C17_Forbidden
Cleaned(s) == SelectSeq(s, C17_Kept)

\* C17: sanitize_filename returns its argument with every forbidden
\* character deleted and the other characters kept in order (so no
\* forbidden character is left and a clean string comes back unchanged),
\* and the empty string for null.
C17_Sanitize ==
  (call.fn = "sanitize_filename" /\ result.done) =>
     /\ ~result.raised
     /\ IF IsNone(call.title) THEN result.value = <<>>
        ELSE /\ result.value = Cleaned(Val(call.title))
             /\ \A i \in 1..Len(result.value) : result.value[i] \notin C17_Forbidden
             /\ ((\A i \in 1..Len(Val(call.title)) : Val(call.title)[i] \notin C17_Forbidden)
                   => result.value = Val(call.title))

\* a string with a clean character between two forbidden ones was sanitized
C17_Witness ==
  /\ call.fn = "sanitize_filename"
  /\ result.done
  /\ call.title = Some(<<":", "a", "/">>)
  /\ result.value = <<"a">>

\* the positions of a list that do not repeat the element just before them
KeptPositions(l) == { i \in 1..Len(l) : i = 1 \/ l[i] # l[i-1] }
\* the list with only its immediately-adjacent repeats collapsed
AdjacentCollapsed(l) ==
  LET keep == KeptPositions(l)
      nth(k) == CHOOSE i \in keep : Cardinality({ j \in keep : j <= i }) = k
  IN [k \in 1..Cardinality(keep) |-> l[nth(k)]]

\* C18: the deduplicated subfolder list is the input list with only
\* adjacent repeats collapsed: no two equal neighbours, order kept,
\* non-adjacent duplicates kept; an empty or null list gives the empty list.
C18_SequentialDedupe ==
  (call.fn = "dedupe_sequential" /\ result.done) =>
     LET l == ListOf(call.subfolders)
         r == result.value
     IN /\ ~result.raised
        /\ r = AdjacentCollapsed(l)
        /\ \A i \in 1..(Len(r) - 1) : r[i] # r[i+1]
        /\ (Len(l) = 0 => r = <<>>)
        /\ ((\A i \in 1..(Len(l) - 1) : l[i] # l[i+1]) => r = l)

\* A,B,B was collapsed to A,B
C18_Witness ==
  /\ call.fn = "dedupe_sequential"
  /\ result.done
  /\ call.subfolders = Some(<<sA, sBColon, sBColon>>)
  /\ result.value = <<sA, sBColon>>

\* a number below 100 printed on two digits
TwoDigits(n) == <<Digits[(n \div 10) + 1], Digits[(n % 10) + 1]>>
\* a field that parses as a (non-negative decimal) integer
ParsesAsInteger(o) ==
  /\ ~IsNone(o)
  /\ Len(Val(o)) > 0
  /\ \A i \in 1..Len(Val(o)) : Val(o)[i] \in {"0","1","2","3","4","5","6","7","8","9"}
IsPresent(o) == ~IsNone(o) /\ Val(o) # <<>>
NonEmpty(seg) == seg # <<>>
\* a directory plus segments; an empty segment adds nothing to a path
Below(dir, segs) == dir \o SelectSeq(segs, NonEmpty)

\* the directory C19 describes, for a category that is not null
C19_Expected ==
  LET cat == Val(call.category)
      subs == ListOf(call.subfolders)
      d == AdjacentCollapsed(subs)
      episodic == cat \in {sTVShows, sKidsTV, sAnime} /\ IsPresent(call.title)
      subSegs == [i \in 1..Len(d) |-> Cleaned(d[i])]
      titleSeg == IF episodic /\ Len(subs) = 0 THEN <<Cleaned(Val(call.title))>> ELSE <<>>
      seasonSeg == IF episodic /\ ParsesAsInteger(call.season)
                   THEN << <<"S","e","a","s","o","n"," ">> \o TwoDigits(ParseInt(Val(call.season))) >>
                   ELSE <<>>
  IN Below(SHARED_MEDIA_PATH, <<Cleaned(cat)>> \o subSegs \o titleSeg \o seasonSeg)

\* C19: build_destination_path returns root/category, then one sanitized
\* segment per deduplicated subfolder; for an episodic category with a title
\* it then appends the sanitized title only when no subfolders were
\* supplied, and 'Season NN' when season parses as an integer; for the
\* other categories neither title nor season is appended.
C19_DestinationPath ==
  (call.fn = "build_destination_path" /\ result.done /\ ~IsNone(call.category)) =>
     /\ ~result.raised
     /\ result.value = C19_Expected

\* an episodic call with a repeated subfolder, a title and a season: the
\* title is left out, the season folder is there
C19_Witness ==
  /\ call.fn = "build_destination_path"
  /\ result.done
  /\ call.category = Some(sTVShows)
  /\ call.subfolders = Some(<<sA, sBColon, sBColon>>)
  /\ call.title = Some(<<"T", ":">>)
  /\ call.season = Some(<<"1">>)
  /\ result.value = SHARED_MEDIA_PATH \o <<sTVShows, sA, <<"B">>,
                                           <<"S","e","a","s","o","n"," ","0","1">> >>

\* the extension of a file name: from its last dot, when that dot is
\* neither its first nor its last character
ExtensionOf(n) ==
  LET dots == { i \in 2..(Len(n) - 1) : n[i] = "." }
  IN IF dots = {} THEN <<>>
     ELSE SubSeq(n, CHOOSE i \in dots : \A j \in dots : j <= i, Len(n))

C20_Title == IF IsNone(call.title) THEN <<>> ELSE Cleaned(Val(call.title))
C20_Snn == <<"S">> \o TwoDigits(ParseInt(Val(call.season)))
C20_Enn == <<"E">> \o TwoDigits(ParseInt(Val(call.episode)))

\* C20: generate_new_filename keeps the extension and returns 'YEAR -
\* title' (year known) or 'title' for a movie category; 'SnnEnn - title'
\* (season and episode parse), 'Enn - title' (only episode parses) or 'title'
\* (neither parses) for an episodic category; the original name for any
\* other category.  The title is sanitized.
C20_NewFilename ==
  (call.fn = "generate_new_filename" /\ result.done) =>
     LET ext == ExtensionOf(call.name)
         sep == <<" ", "-", " ">>
         cat == call.category
         r == result.value
     IN /\ ~result.raised
        /\ (~IsNone(cat) /\ Val(cat) \in {sMovies, sKidsMovies}) =>
              IF IsPresent(call.year) THEN r = Val(call.year) \o sep \o C20_Title \o ext
              ELSE r = C20_Title \o ext
        /\ (~IsNone(cat) /\ Val(cat) \in {sTVShows, sKidsTV, sAnime}) =>
              /\ (ParsesAsInteger(call.season) /\ ParsesAsInteger(call.episode)) =>
                    r = C20_Snn \o C20_Enn \o sep \o C20_Title \o ext
              /\ (~ParsesAsInteger(call.season) /\ ParsesAsInteger(call.episode)) =>
                    r = C20_Enn \o sep \o C20_Title \o ext
              /\ (~ParsesAsInteger(call.season) /\ ~ParsesAsInteger(call.episode)) =>
                    r = C20_Title \o ext
        /\ (IsNone(cat) \/ Val(cat) \notin {sMovies, sKidsMovies, sTVShows, sKidsTV, sAnime}) =>
              r = call.name

\* an episode named from its season, its episode and its sanitized title,
\* with the extension of a name that holds two dots
C20_Witness ==
  /\ call.fn = "generate_new_filename"
  /\ result.done
  /\ call.name = <<"a", ".", "b", ".", "M", "K", "V">>
  /\ call.category = Some(sAnime)
  /\ call.title = Some(<<"T", ":">>)
  /\ call.season = Some(<<"1">>)
  /\ call.episode = Some(<<"0", "2">>)
  /\ result.value = <<"S","0","1","E","0","2"," ","-"," ","T",".","M","K","V">>

\* ---- the Grouping Engine
C21_Name(g) == IF "group_name" \in g.has THEN g.group_name ELSE None
C21_Titles(g) ==
  IF "titles" \in g.has /\ ~IsNone(g.titles)
  THEN { Val(g.titles)[i] : i \in 1..Len(Val(g.titles)) } ELSE {}
\* a grouping with an empty or null name, or without titles
Ignored(g) == IsNone(C21_Name(g)) \/ Val(C21_Name(g)) = <<>> \/ C21_Titles(g) = {}
\* root/category/sanitize(group_name)
GroupDir(g) == Below(SHARED_MEDIA_PATH, <<CATEGORIES[1], Cleaned(Val(C21_Name(g)))>>)
\* the groupings that list the stem of a file and are not ignored
ListingGroups(f) ==
  { i \in 1..Len(groupings) :
      ~Ignored(groupings[i]) /\ Stem(Name(f)) \in C21_Titles(groupings[i]) }
\* the file f of the scan is where it was when the run started
InPlace(f) == [path |-> f, id |-> IdAt(fs0, f)] \in fs

\* a real run of the Grouping Engine has gone to its end
EngineDone == mode = "reorganize" /\ pc = "done" /\ ~dry_run

AtIgnoredGroup ==
  /\ mode = "reorganize"
  /\ pc = "group"
  /\ idx <= Len(groupings)
  /\ Ignored(groupings[idx])

\* C22: a grouping with an empty or null name or without titles is passed
\* over: the step creates no directory and moves no file, and the loop goes
\* on to the next grouping.
C22_IgnoredGroupSkipped ==
  [][ (AtIgnoredGroup /\ pc' # "idle") =>
         /\ fs' = fs /\ dirs' = dirs
         /\ moved' = moved
         /\ pc' = "group" /\ idx' = idx + 1
         /\ groupings' = groupings ]_vars

\* a real run passed over its first grouping and moved a file for its second
C22_Witness ==
  /\ EngineDone
  /\ Len(groupings) = 2
  /\ Ignored(groupings[1])
  /\ ~Ignored(groupings[2])
  /\ moved # {}
  /\ \A d \in dirs \ dirs0 : d = GroupDir(groupings[2])


\* the Move Executor has run for a file that was in place when it listed the
\* source directory, and no move of the run failed
MovesAllSucceeded ==
  /\ MoveExecutorDone
  /\ file_path \notin moveFailed
  /\ file_path \in PathsOf(fsAtMove)

\* C23: after a non-dry-run rename_and_move_file whose moves all succeed,
\* the primary file is at the returned new_path (the destination directory
\* joined with the synthesized filename) and no longer at original_path.
C23_PrimaryAtNewPath ==
  MovesAllSucceeded =>
     /\ [path |-> dest_file, id |-> IdAt(fsAtMove, file_path)] \in fs
     /\ file_path \notin PathsOf(fs)

\* the primary file of a path of this run's scan has been moved by this run
PrimaryMoved(f) == f \in PathsOf(fs0) /\ IdAt(fs0, f) \in moved

\* C24: in a non-dry-run, a file has a record in the cache, in memory and on
\* disk, written by this run only if the move of its primary file succeeded.
C24_CacheOnlyAfterMove ==
  (mode = "rescue" /\ ~dry_run) =>
     \A f \in DOMAIN outcome :
        outcome[f] = "Cached" => PrimaryMoved(f)

\* C25: when a file is processed on a cache hit, the destination computed
\* from the cached record is the new_path stored in that record.
C25_CacheHitSameDestination ==
  (mode = "rescue" /\ pc = "write" /\ file_path \in DOMAIN hits) =>
     dest_file = hits[file_path].new_path

====
